---- MODULE Spec2Model ----
(***************************************************************************)
(* A model of AwsS3Service (packages/plugin-node/src/services/awsS3.ts):   *)
(* initialize, uploadFile, uploadJson and generateSignedUrl, with the      *)
(* settings source, the local file system, the clock and the S3 backend    *)
(* as the environment.                                                     *)
(*                                                                         *)
(* JavaScript strings are sequences of one-character strings, so that      *)
(* template literals, replaceAll, regular-expression replacement,          *)
(* path.basename, path.extname and toLowerCase are computed character by   *)
(* character.  An optional value (undefined or a value) is the empty       *)
(* sequence None or the one-element sequence Some(v).                      *)
(***************************************************************************)
EXTENDS Integers, Sequences, FiniteSets, TLC

(* ------------------------------------------------------------------ *)
(* Optional values and strings                                         *)
(* ------------------------------------------------------------------ *)

None == << >>

Some(v) == << v >>

\* JavaScript truthiness of an optional string: undefined and "" are falsy.
TruthyStr(o) == o # None /\ o[1] # << >>

\* `${v}` for an optional string: undefined prints as "undefined".
TemplateStr(o) ==
    IF o = None THEN << "u", "n", "d", "e", "f", "i", "n", "e", "d" >> ELSE o[1]

RECURSIVE DecimalDigits(_)
\* `${n}` for a non-negative integer.
DecimalDigits(n) ==
    LET d == << "0", "1", "2", "3", "4", "5", "6", "7", "8", "9" >>
    IN  IF n < 10 THEN << d[n + 1] >>
        ELSE DecimalDigits(n \div 10) \o << d[(n % 10) + 1] >>

UpperCase ==
    << "A", "B", "C", "D", "E", "F", "G", "H", "I", "J", "K", "L", "M",
       "N", "O", "P", "Q", "R", "S", "T", "U", "V", "W", "X", "Y", "Z" >>

LowerCase ==
    << "a", "b", "c", "d", "e", "f", "g", "h", "i", "j", "k", "l", "m",
       "n", "o", "p", "q", "r", "s", "t", "u", "v", "w", "x", "y", "z" >>

\* String.prototype.toLowerCase, character by character.
toLowerCase(s) ==
    [ i \in 1..Len(s) |->
        IF \E j \in 1..26 : UpperCase[j] = s[i]
        THEN LowerCase[CHOOSE j \in 1..26 : UpperCase[j] = s[i]]
        ELSE s[i] ]

RECURSIVE replaceAllDoubleSlash(_)
\* s.replaceAll('//', '/'): one left-to-right pass over non-overlapping
\* occurrences of "//"; the text produced by a replacement is not rescanned.
replaceAllDoubleSlash(s) ==
    IF Len(s) < 2 THEN s
    ELSE IF s[1] = "/" /\ s[2] = "/"
         THEN << "/" >> \o replaceAllDoubleSlash(SubSeq(s, 3, Len(s)))
         ELSE << s[1] >> \o replaceAllDoubleSlash(Tail(s))

RECURSIVE collapseSlashes(_)
\* s.replace(/\/+/g, '/'): every maximal run of slashes becomes one slash.
collapseSlashes(s) ==
    IF Len(s) < 2 THEN s
    ELSE IF s[1] = "/" /\ s[2] = "/"
         THEN collapseSlashes(Tail(s))
         ELSE << s[1] >> \o collapseSlashes(Tail(s))

RECURSIVE stripTrailingSlashes(_)
stripTrailingSlashes(s) ==
    IF Len(s) > 0 /\ s[Len(s)] = "/"
    THEN stripTrailingSlashes(SubSeq(s, 1, Len(s) - 1))
    ELSE s

\* The index of the last occurrence of character ch in s, 0 when there is none.
lastIndexOf(s, ch) ==
    IF \E i \in 1..Len(s) : s[i] = ch
    THEN CHOOSE i \in 1..Len(s) :
            s[i] = ch /\ \A j \in (i + 1)..Len(s) : s[j] # ch
    ELSE 0

\* path.basename(p) (POSIX): the last portion of p, trailing slashes ignored.
basename(p) ==
    LET q == stripTrailingSlashes(p)
    IN  SubSeq(q, lastIndexOf(q, "/") + 1, Len(q))

\* path.extname(p) (POSIX): from the last "." of the last portion of p to its
\* end; empty when there is no "." there, when the only "." is the first
\* character of that portion, and for the portion "..".
extname(p) ==
    LET b == basename(p)
        d == lastIndexOf(b, ".")
    IN  IF d = 0 \/ d = 1 \/ b = << ".", "." >> THEN << >>
        ELSE SubSeq(b, d, Len(b))

(* ------------------------------------------------------------------ *)
(* Bounds and the environment's input sets                             *)
(* ------------------------------------------------------------------ *)

\* The clock (Date.now(), in milliseconds) runs from 1 to MaxTime.
MaxTime == 2

\* The concurrent callers of the service; each issues one call.
Calls == { 1, 2 }

\* One state of the settings source: what getSetting returns for each name
\* (None is undefined).
Settings(accessKeyId, secretAccessKey, region, bucketName, uploadPath) ==
    [ AWS_ACCESS_KEY_ID |-> accessKeyId, AWS_SECRET_ACCESS_KEY |-> secretAccessKey,
      AWS_REGION |-> region, AWS_S3_BUCKET |-> bucketName,
      AWS_S3_UPLOAD_PATH |-> uploadPath ]

AccessKey == Some(<< "A", "K" >>)

SecretKey == Some(<< "S", "K" >>)

Region == Some(<< "e", "u" >>)

Bucket == Some(<< "b" >>)

\* Values the settings source returns for AWS_S3_UPLOAD_PATH.
UploadPaths ==
    { None, Some(<< "u", "/" >>), Some(<< "u", "/", "/" >>) }

\* The settings sources considered: all four required settings present, with
\* each upload path; each one of the four undefined; each one empty; none set.
SettingsSources ==
    { Settings(AccessKey, SecretKey, Region, Bucket, u) : u \in UploadPaths }
    \cup { Settings(a, SecretKey, Region, Bucket, None) : a \in { None, Some(<< >>) } }
    \cup { Settings(AccessKey, k, Region, Bucket, None) : k \in { None, Some(<< >>) } }
    \cup { Settings(AccessKey, SecretKey, r, Bucket, None) : r \in { None, Some(<< >>) } }
    \cup { Settings(AccessKey, SecretKey, Region, b, None) : b \in { None, Some(<< >>) } }
    \cup { Settings(None, None, None, None, None) }

\* Values of process.env.AWS_REGION, which need not agree with the settings
\* source (a setting may come from the character's secrets).
EnvRegions == { None, Some(<< "e", "u" >>) }

\* The local file system: regular files with their content, and directories
\* (which exist but cannot be read as a file).
Files ==
    { [ path |-> << "a", "/", "x", ".", "P", "N", "G" >>, kind |-> "file",
        content |-> "png-bytes" ],
      [ path |-> << "d" >>, kind |-> "dir", content |-> "" ] }

\* A path at which there is no file.
MissingPath == << "g", "o", "n", "e", ".", "p", "n", "g" >>

\* (useSignedUrl, expiresIn) as passed by a caller; None is an omitted argument.
UrlModes ==
    { [ useSignedUrl |-> None, expiresIn |-> None ],
      [ useSignedUrl |-> Some(TRUE), expiresIn |-> None ],
      [ useSignedUrl |-> Some(TRUE), expiresIn |-> Some(60) ] }

\* JSON payloads [t, v]: null, undefined, a number v, a boolean (v = 0 is
\* false), a string of v characters "x", the object {a: v}, or the metadata
\* object the collection handler builds.
\* Here: null, undefined, 0, false, "", {a: 1} and {a: 2}.
JsonValues ==
    { [ t |-> "null", v |-> 0 ], [ t |-> "undefined", v |-> 0 ],
      [ t |-> "number", v |-> 0 ], [ t |-> "boolean", v |-> 0 ],
      [ t |-> "string", v |-> 0 ],
      [ t |-> "object", v |-> 1 ], [ t |-> "object", v |-> 2 ] }

\* (fileName, subDirectory) as passed to uploadJson.
JsonTargets ==
    { [ fileName |-> None, subDirectory |-> None ],
      [ fileName |-> Some(<< "m", ".", "j" >>), subDirectory |-> None ],
      [ fileName |-> Some(<< "/", "m", ".", "j" >>),
        subDirectory |-> Some(<< "s", "/", "/" >>) ] }

\* Keys passed to generateSignedUrl.
SignKeys == { << "u", "/", "k" >> }

\* Errors the S3 client raises (Error instances carrying a message).
BackendErrors ==
    { [ isError |-> TRUE, message |-> "AccessDenied" ] }

(* ------------------------------------------------------------------ *)
(* State                                                               *)
(* ------------------------------------------------------------------ *)

VARIABLES
    settings,        \* the settings source behind runtime.getSetting
    s3Client,        \* this.s3Client: None, or Some(the client's configuration)
    bucket,          \* this.bucket: None, or Some(string)
    fileUploadPath,  \* this.fileUploadPath: None, or Some(string)
    initOutcome,     \* "constructed", or how initialize ended: "returned", "threw"
    envRegion,       \* process.env.AWS_REGION
    clock,           \* Date.now()
    files,           \* the local file system
    objects,         \* the objects the backend holds
    calls,           \* per caller: the call's arguments, locals, position, result
    handler,         \* the GENERATE_COLLECTION action: validate's answer, the
                     \* handler's position and locals
    chain            \* the wallet calls made: createCollection, mintNFT

vars ==
    << settings, s3Client, bucket, fileUploadPath, initOutcome, envRegion, clock,
       files, objects, calls, handler, chain >>

service == << s3Client, bucket, fileUploadPath >>

(* ------------------------------------------------------------------ *)
(* The service's pure computations                                     *)
(* ------------------------------------------------------------------ *)

\* The default of an omitted argument (useSignedUrl = false, expiresIn = 900).
OrDefault(arg, default) == IF arg = None THEN default ELSE arg[1]

DefaultExpiresIn == 900

\* The check with the region left out.
MissingCredentialsNoRegion(accessKeyId, secretAccessKey, region, bucketName) ==
    \/ ~TruthyStr(accessKeyId)
    \/ ~TruthyStr(secretAccessKey)
    \/ ~TruthyStr(bucketName)

\* initialize's check of the four required settings.
MissingCredentials(accessKeyId, secretAccessKey, region, bucketName) ==
    \/ ~TruthyStr(accessKeyId)
    \/ ~TruthyStr(secretAccessKey)
    \/ ~TruthyStr(region)
    \/ ~TruthyStr(bucketName)

\* getContentType without the lower-casing of the extension.
getContentTypeCaseSensitive(filePath) ==
    LET ext == extname(filePath)
    IN  CASE ext = << ".", "p", "n", "g" >> -> "image/png"
          [] ext = << ".", "j", "p", "g" >> -> "image/jpeg"
          [] ext = << ".", "j", "p", "e", "g" >> -> "image/jpeg"
          [] ext = << ".", "g", "i", "f" >> -> "image/gif"
          [] ext = << ".", "w", "e", "b", "p" >> -> "image/webp"
          [] OTHER -> "application/octet-stream"

\* getContentType: the extension, lower-cased, looked up in the table.
getContentType(filePath) ==
    LET ext == toLowerCase(extname(filePath))
    IN  CASE ext = << ".", "p", "n", "g" >> -> "image/png"
          [] ext = << ".", "j", "p", "g" >> -> "image/jpeg"
          [] ext = << ".", "j", "p", "e", "g" >> -> "image/jpeg"
          [] ext = << ".", "g", "i", "f" >> -> "image/gif"
          [] ext = << ".", "w", "e", "b", "p" >> -> "image/webp"
          [] OTHER -> "application/octet-stream"

\* uploadFile's key without the timestamp.
FileKeyNoTimestamp(prefix, timestamp, filePath) ==
    replaceAllDoubleSlash(TemplateStr(prefix) \o << "/" >> \o basename(filePath))

\* uploadFile's key: `${this.fileUploadPath}/${Date.now()}-${basename}`
\* with replaceAll('//', '/').
FileKey(prefix, timestamp, filePath) ==
    LET baseFileName == DecimalDigits(timestamp) \o << "-" >> \o basename(filePath)
    IN  replaceAllDoubleSlash(TemplateStr(prefix) \o << "/" >> \o baseFileName)

\* uploadJson's key with the timestamp put before the file name, as
\* uploadFile does.
JsonKeyStamped(prefix, timestamp, fileName, subDirectory) ==
    LET actualFileName ==
            DecimalDigits(timestamp) \o << "-" >> \o
                (IF TruthyStr(fileName) THEN fileName[1] ELSE << ".", "j", "s", "o", "n" >>)
        base == IF TruthyStr(prefix) THEN prefix[1] ELSE << >>
        fullPath ==
            IF TruthyStr(subDirectory)
            THEN collapseSlashes(base \o << "/" >> \o subDirectory[1])
            ELSE base
    IN  collapseSlashes(fullPath \o << "/" >> \o actualFileName)

\* uploadJson's key: the prefix (or ''), the sub-directory when given, and
\* the file name (or `${timestamp}.json`), each join collapsed by /\/+/g.
JsonKey(prefix, timestamp, fileName, subDirectory) ==
    LET actualFileName ==
            IF TruthyStr(fileName) THEN fileName[1]
            ELSE DecimalDigits(timestamp) \o << ".", "j", "s", "o", "n" >>
        base == IF TruthyStr(prefix) THEN prefix[1] ELSE << >>
        fullPath ==
            IF TruthyStr(subDirectory)
            THEN collapseSlashes(base \o << "/" >> \o subDirectory[1])
            ELSE base
    IN  collapseSlashes(fullPath \o << "/" >> \o actualFileName)

\* A payload check that rejects null alone.
FalsyJsonNullOnly(jsonData) == jsonData.t = "null"

\* !jsonData: null and undefined are falsy, as are 0, false and the empty
\* string; an object is truthy.
FalsyJson(jsonData) ==
    \/ jsonData.t \in { "null", "undefined" }
    \/ jsonData.t = "number" /\ jsonData.v = 0
    \/ jsonData.t = "boolean" /\ jsonData.v = 0
    \/ jsonData.t = "string" /\ jsonData.v = 0

\* JSON.stringify(jsonData, null, 2); an object payload is {a: v}, a metadata
\* payload is {name, description, image: v} with v an optional URL (an
\* undefined property is left out).
JsonStringify(jsonData) ==
    CASE jsonData.t = "object" ->
            << "{", "\n", " ", " ", "\"a\"", ":", " " >>
                \o DecimalDigits(jsonData.v) \o << "\n", "}" >>
      [] jsonData.t = "number" -> DecimalDigits(jsonData.v)
      [] jsonData.t = "boolean" -> IF jsonData.v = 0 THEN << "false" >> ELSE << "true" >>
      [] jsonData.t = "string" ->
            << "\"" >> \o [ i \in 1..jsonData.v |-> "x" ] \o << "\"" >>
      [] jsonData.t = "null" -> << "null" >>
      [] jsonData.t \in { "collectionMetadata", "nftMetadata" } ->
            << "{", "\n", " ", " ", "\"name\"", ":", " ", jsonData.t, ",",
               "\n", " ", " ", "\"description\"", ":", " ", jsonData.t >>
                \o (IF jsonData.v = None THEN << >>
                    ELSE << ",", "\n", " ", " ", "\"image\"", ":", " ", "\"" >>
                            \o jsonData.v[1] \o << "\"" >>)
                \o << "\n", "}" >>
      [] OTHER -> << >>

\* The public URL: `https://${this.bucket}.s3.${process.env.AWS_REGION}.amazonaws.com/${key}`.
PublicUrl(bucketField, regionEnv, key) ==
    << "https:", "/", "/" >> \o TemplateStr(bucketField) \o << ".s3." >>
        \o TemplateStr(regionEnv) \o << ".amazonaws.com", "/" >> \o key

\* What getSignedUrl resolves to for a GetObjectCommand: the object's URL in
\* the client's region with the expiry and the signature as its query.
PresignedUrl(client, request) ==
    << "https:", "/", "/" >> \o TemplateStr(request.Bucket) \o << ".s3." >>
        \o TemplateStr(client.region) \o << ".amazonaws.com", "/" >> \o request.Key
        \o << "?X-Amz-Expires=" >> \o DecimalDigits(request.expiresIn)
        \o << "&X-Amz-Signature=", "sig" >>

\* A catch block that drops the exception's message.
ErrorMessageUnknown(error) == "Unknown error occurred"

\* The catch blocks' message: error.message of an Error, else a fixed text.
ErrorMessage(error) ==
    IF error.isError THEN error.message ELSE "Unknown error occurred"

\* The TypeError of this.s3Client.send when s3Client is undefined.
NoClientError ==
    [ isError |-> TRUE,
      message |-> "Cannot read properties of undefined (reading 'send')" ]

\* The error of fs.readFileSync on a directory.
ReadError ==
    [ isError |-> TRUE,
      message |-> "EISDIR: illegal operation on a directory, read" ]

(* ------------------------------------------------------------------ *)
(* Calls                                                               *)
(* ------------------------------------------------------------------ *)

\* A caller that has not called yet. A call's record holds its operation and
\* arguments, its position (pc), the timestamp it read (at), its key, the
\* requests it has handed to the S3 client (sent), whether its PUT has
\* resolved (stored), the exception its catch block caught, and its result.
IdleCall ==
    [ op |-> "none", args |-> None, pc |-> "idle", at |-> 0, key |-> None,
      sent |-> << >>, stored |-> FALSE, caught |-> None, result |-> None ]

\* A call that ended by returning `value`.
Returned(call, value) == [ call EXCEPT !.pc = "returned", !.result = Some(value) ]

\* A call that ended by throwing `error` to its caller.
Threw(call, error) == [ call EXCEPT !.pc = "threw", !.result = Some(error) ]

\* The failure result of the input checks and of the catch blocks.
Failure(message) == [ success |-> FALSE, error |-> message ]

\* The answer when the missing file is left to readFileSync to report.
FileMissingFromRead ==
    Failure("ENOENT: no such file or directory, open")

\* uploadFile's answer for a path at which nothing exists.
FileMissingResult == Failure("File does not exist")

\* uploadJson's answer for a falsy payload.
JsonRequiredResult == Failure("JSON data is required")

\* The catch block of uploadFile and uploadJson: the exception becomes a
\* failure result.
Caught(call, error) ==
    Returned([ call EXCEPT !.caught = Some(error) ], Failure(ErrorMessage(error)))

PutObjectCommand(uploadParams) ==
    [ cmd |-> "PutObject", Bucket |-> uploadParams.Bucket, Key |-> uploadParams.Key,
      Body |-> uploadParams.Body, ContentType |-> uploadParams.ContentType ]

GetObjectSigning(bucketField, key, expiresIn) ==
    [ cmd |-> "GetObject", Bucket |-> bucketField, Key |-> key,
      expiresIn |-> expiresIn ]

\* The backend's bucket after a PUT: the object replaces any object that has
\* the same bucket and key.
Store(objs, put) ==
    { o \in objs : ~(o.Bucket = put.Bucket /\ o.Key = put.Key) }
        \cup { [ Bucket |-> put.Bucket, Key |-> put.Key, Body |-> put.Body,
                 ContentType |-> put.ContentType ] }

\* The action before validate and the handler have run: validate's answer
\* and the handler's logoPath, jsonFilePath, res and the callback's
\* jsonFilePath are unset.
IdleHandler ==
    [ validated |-> None, pc |-> "idle", logoPath |-> None, jsonFilePath |-> None,
      res |-> None, nftJsonFilePath |-> None ]

existsSync(fs, filePath) == \E f \in fs : f.path = filePath

FileAt(fs, filePath) == CHOOSE f \in fs : f.path = filePath

(* ------------------------------------------------------------------ *)
(* Initial state                                                       *)
(* ------------------------------------------------------------------ *)

Init ==
    /\ settings \in SettingsSources
    /\ s3Client = None
    /\ bucket = None
    /\ fileUploadPath = None
    /\ initOutcome = "constructed"
    /\ envRegion \in EnvRegions
    /\ clock = 1
    /\ files = Files
    /\ objects = { }
    /\ calls = [ c \in Calls |-> IdleCall ]
    /\ handler = IdleHandler
    /\ chain = << >>

(* ------------------------------------------------------------------ *)
(* initialize                                                          *)
(* ------------------------------------------------------------------ *)

\* initialize(runtime): reads the settings source, throws when one of the
\* four required settings is falsy, otherwise builds the client and stores
\* the prefix and the bucket. The runtime calls it once per service instance.
Initialize ==
    /\ initOutcome = "constructed"
    /\ LET AWS_ACCESS_KEY_ID == settings.AWS_ACCESS_KEY_ID
           AWS_SECRET_ACCESS_KEY == settings.AWS_SECRET_ACCESS_KEY
           AWS_REGION == settings.AWS_REGION
           AWS_S3_BUCKET == settings.AWS_S3_BUCKET
       IN  IF MissingCredentials(AWS_ACCESS_KEY_ID, AWS_SECRET_ACCESS_KEY,
                                 AWS_REGION, AWS_S3_BUCKET)
           THEN /\ initOutcome' = "threw"
                /\ UNCHANGED service
           ELSE /\ s3Client' = Some([ region |-> AWS_REGION,
                                      accessKeyId |-> AWS_ACCESS_KEY_ID,
                                      secretAccessKey |-> AWS_SECRET_ACCESS_KEY ])
                /\ fileUploadPath' = Some(OrDefault(settings.AWS_S3_UPLOAD_PATH, << >>))
                /\ bucket' = AWS_S3_BUCKET
                /\ initOutcome' = "returned"
    /\ UNCHANGED << handler, chain, settings, envRegion, clock, files, objects, calls >>

\* The clock advances.
Tick ==
    /\ clock < MaxTime
    /\ clock' = clock + 1
    /\ UNCHANGED << handler, chain, settings, service, initOutcome, envRegion, files, objects, calls >>

(* ------------------------------------------------------------------ *)
(* uploadFile                                                          *)
(* ------------------------------------------------------------------ *)

\* uploadFile up to its first await, at time `now`: the existence check, the
\* read, the key and the upload parameters, and the PUT handed to the
\* client. An exception on the way is caught and returned as a failure.
UploadFileCall(filePath, mode, now) ==
    LET call == [ IdleCall EXCEPT !.op = "uploadFile",
                    !.args = [ filePath |-> filePath,
                               useSignedUrl |-> mode.useSignedUrl,
                               expiresIn |-> mode.expiresIn ] ]
        fileName == FileKey(fileUploadPath, now, filePath)
        uploadParams ==
            [ Bucket |-> bucket, Key |-> fileName,
              Body |-> FileAt(files, filePath).content,
              ContentType |-> getContentType(filePath) ]
        keyed == [ call EXCEPT !.at = now, !.key = Some(fileName) ]
    IN  IF ~existsSync(files, filePath)
        THEN Returned(call, FileMissingResult)
        ELSE IF FileAt(files, filePath).kind # "file"
        THEN Caught(call, ReadError)
        ELSE IF s3Client = None
        THEN Caught(keyed, NoClientError)
        ELSE [ keyed EXCEPT !.pc = "put",
                            !.sent = << PutObjectCommand(uploadParams) >> ]

UploadFile(c) ==
    /\ calls[c].pc = "idle"
    /\ \E filePath \in { f.path : f \in files } \cup { MissingPath }, mode \in UrlModes :
          calls' = [ calls EXCEPT ![c] = UploadFileCall(filePath, mode, clock) ]
    /\ UNCHANGED << handler, chain, settings, service, initOutcome, envRegion, clock, files, objects >>

(* ------------------------------------------------------------------ *)
(* uploadJson                                                          *)
(* ------------------------------------------------------------------ *)

\* uploadJson up to its first await, at time `now`: the payload check, the
\* key, the serialization, and the PUT handed to the client.
UploadJsonCall(jsonData, target, mode, now) ==
    LET call == [ IdleCall EXCEPT !.op = "uploadJson",
                    !.args = [ jsonData |-> jsonData,
                               fileName |-> target.fileName,
                               subDirectory |-> target.subDirectory,
                               useSignedUrl |-> mode.useSignedUrl,
                               expiresIn |-> mode.expiresIn ] ]
        key == JsonKey(fileUploadPath, now, target.fileName, target.subDirectory)
        uploadParams ==
            [ Bucket |-> bucket, Key |-> key, Body |-> JsonStringify(jsonData),
              ContentType |-> "application/json" ]
        keyed == [ call EXCEPT !.at = now, !.key = Some(key) ]
    IN  IF FalsyJson(jsonData)
        THEN Returned(call, JsonRequiredResult)
        ELSE IF s3Client = None
        THEN Caught(keyed, NoClientError)
        ELSE [ keyed EXCEPT !.pc = "put",
                            !.sent = << PutObjectCommand(uploadParams) >> ]

\* UploadJson that also keeps the directory it built in this.fileUploadPath.
UploadJsonKeepingPath(c) ==
    /\ calls[c].pc = "idle"
    /\ \E jsonData \in JsonValues, target \in JsonTargets, mode \in UrlModes :
          /\ calls' = [ calls EXCEPT ![c] = UploadJsonCall(jsonData, target, mode, clock) ]
          /\ fileUploadPath' =
                IF TruthyStr(target.subDirectory)
                THEN Some(collapseSlashes(OrDefault(fileUploadPath, << >>) \o << "/" >>
                                          \o target.subDirectory[1]))
                ELSE fileUploadPath
    /\ UNCHANGED << handler, chain, settings, s3Client, bucket, initOutcome, envRegion, clock, files,
                    objects >>

UploadJson(c) ==
    /\ calls[c].pc = "idle"
    /\ \E jsonData \in JsonValues, target \in JsonTargets, mode \in UrlModes :
          calls' = [ calls EXCEPT ![c] = UploadJsonCall(jsonData, target, mode, clock) ]
    /\ UNCHANGED << handler, chain, settings, service, initOutcome, envRegion, clock, files, objects >>

(* ------------------------------------------------------------------ *)
(* generateSignedUrl                                                   *)
(* ------------------------------------------------------------------ *)

\* generateSignedUrl: the signing request for the given key. There is no
\* try/catch: a failure is thrown to the caller.
GenerateSignedUrlCall(fileName, expiresIn) ==
    LET call == [ IdleCall EXCEPT !.op = "generateSignedUrl",
                    !.args = [ fileName |-> fileName, expiresIn |-> expiresIn ] ]
        command == GetObjectSigning(bucket, fileName,
                                    OrDefault(expiresIn, DefaultExpiresIn))
    IN  IF s3Client = None
        THEN Threw(call, NoClientError)
        ELSE [ call EXCEPT !.pc = "sign", !.sent = << command >> ]

GenerateSignedUrl(c) ==
    /\ calls[c].pc = "idle"
    /\ \E fileName \in SignKeys, mode \in UrlModes :
          calls' = [ calls EXCEPT ![c] = GenerateSignedUrlCall(fileName, mode.expiresIn) ]
    /\ UNCHANGED << handler, chain, settings, service, initOutcome, envRegion, clock, files, objects >>

(* ------------------------------------------------------------------ *)
(* The backend's answers and the calls' continuations                  *)
(* ------------------------------------------------------------------ *)

\* The success result: {success: true, url}, and for uploadJson
\* {success: true, key, url}.
SuccessResult(call, url) ==
    IF call.op = "uploadJson"
    THEN [ success |-> TRUE, key |-> call.key[1], url |-> url ]
    ELSE [ success |-> TRUE, url |-> url ]

\* AfterPut with the signing request always asking for the default expiry.
AfterPutDefaultExpiry(call) ==
    LET done == [ call EXCEPT !.stored = TRUE ]
    IN  IF ~OrDefault(call.args.useSignedUrl, FALSE)
        THEN Returned(done, SuccessResult(done, PublicUrl(bucket, envRegion, call.key[1])))
        ELSE [ done EXCEPT !.pc = "sign",
                 !.sent = Append(@, GetObjectSigning(bucket, call.key[1], DefaultExpiresIn)) ]

\* An upload after its PUT has resolved: the public URL is built and
\* returned, or the signing request is issued.
AfterPut(call) ==
    LET done == [ call EXCEPT !.stored = TRUE ]
    IN  IF ~OrDefault(call.args.useSignedUrl, FALSE)
        THEN Returned(done, SuccessResult(done, PublicUrl(bucket, envRegion, call.key[1])))
        ELSE [ done EXCEPT !.pc = "sign",
                 !.sent = Append(@, GetObjectSigning(bucket, call.key[1],
                                      OrDefault(call.args.expiresIn, DefaultExpiresIn))) ]

\* The PUT is stored and resolves; the call continues.
PutSucceeds(c) ==
    /\ calls[c].pc = "put"
    /\ objects' = Store(objects, calls[c].sent[1])
    /\ calls' = [ calls EXCEPT ![c] = AfterPut(calls[c]) ]
    /\ UNCHANGED << handler, chain, settings, service, initOutcome, envRegion, clock, files >>

\* The PUT is rejected: nothing is stored, the catch block returns a failure.
PutFails(c) ==
    /\ calls[c].pc = "put"
    /\ \E error \in BackendErrors :
          calls' = [ calls EXCEPT ![c] = Caught(calls[c], error) ]
    /\ UNCHANGED << handler, chain, settings, service, initOutcome, envRegion, clock, files, objects >>

\* A call after getSignedUrl has resolved to url.
AfterSign(call, url) ==
    IF call.op = "generateSignedUrl"
    THEN Returned(call, url)
    ELSE Returned(call, SuccessResult(call, url))

\* getSignedUrl resolves.
SignSucceeds(c) ==
    /\ calls[c].pc = "sign"
    /\ LET call == calls[c]
       IN  calls' = [ calls EXCEPT ![c] =
               AfterSign(call, PresignedUrl(s3Client[1], call.sent[Len(call.sent)])) ]
    /\ UNCHANGED << handler, chain, settings, service, initOutcome, envRegion, clock, files, objects >>

\* A call after getSignedUrl has rejected with error: uploadFile and
\* uploadJson catch it, generateSignedUrl lets it through.
AfterSignError(call, error) ==
    IF call.op = "generateSignedUrl"
    THEN Threw(call, error)
    ELSE Caught(call, error)

\* getSignedUrl rejects.
SignFails(c) ==
    /\ calls[c].pc = "sign"
    /\ \E error \in BackendErrors :
          calls' = [ calls EXCEPT ![c] = AfterSignError(calls[c], error) ]
    /\ UNCHANGED << handler, chain, settings, service, initOutcome, envRegion, clock, files, objects >>

(* ------------------------------------------------------------------ *)
(* The GENERATE_COLLECTION action                                      *)
(* ------------------------------------------------------------------ *)

\* initialize has ended (returned or thrown).
Initialized == initOutcome # "constructed"

\* An awaited call has settled.
Ended(call) == call.pc \in { "returned", "threw" }

\* validate: true when some one of the four settings is truthy.
validate(source) ==
    LET AwsAccessKeyIdOk == TruthyStr(source.AWS_ACCESS_KEY_ID)
        AwsSecretAccessKeyOk == TruthyStr(source.AWS_SECRET_ACCESS_KEY)
        AwsRegionOk == TruthyStr(source.AWS_REGION)
        AwsS3BucketOk == TruthyStr(source.AWS_S3_BUCKET)
    IN  AwsAccessKeyIdOk \/ AwsSecretAccessKeyOk \/ AwsRegionOk \/ AwsS3BucketOk

\* The runtime asks validate.
Validate ==
    /\ handler.validated = None
    /\ handler' = [ handler EXCEPT !.validated = Some(validate(settings)) ]
    /\ UNCHANGED << chain, settings, service, initOutcome, envRegion, clock, files,
                    objects, calls >>

\* result.url of an upload result: undefined when the result has no url.
UrlOf(result) == IF result.success THEN Some(result.url) ELSE None

\* The handler's uploads are uploadFile(path, false) and uploadJson(data).
HandlerFileMode == [ useSignedUrl |-> Some(FALSE), expiresIn |-> None ]

HandlerJsonMode == [ useSignedUrl |-> None, expiresIn |-> None ]

HandlerJsonTarget == [ fileName |-> None, subDirectory |-> None ]

\* The image files the handler has saved locally.
SavedImages == { f.path : f \in { g \in files : g.kind = "file" } }

\* The handler is run (the action validated, the services initialized), the
\* logo is generated and saved, and its upload is awaited.
HandlerUploadLogo ==
    /\ handler.pc = "idle"
    /\ handler.validated = Some(TRUE)
    /\ Initialized
    /\ \E filepath \in SavedImages :
          calls' = [ calls EXCEPT ![1] = UploadFileCall(filepath, HandlerFileMode, clock) ]
    /\ handler' = [ handler EXCEPT !.pc = "logo" ]
    /\ UNCHANGED << chain, settings, service, initOutcome, envRegion, clock, files,
                    objects >>

\* logoPath is back: the collection's metadata, with image logoPath.url, is
\* uploaded.
HandlerUploadCollectionJson ==
    /\ handler.pc = "logo"
    /\ Ended(calls[1])
    /\ LET logoPath == calls[1].result[1]
       IN  /\ handler' = [ handler EXCEPT !.pc = "collectionJson",
                                          !.logoPath = Some(logoPath) ]
           /\ calls' = [ calls EXCEPT ![1] =
                   UploadJsonCall([ t |-> "collectionMetadata", v |-> UrlOf(logoPath) ],
                                  HandlerJsonTarget, HandlerJsonMode, clock) ]
    /\ UNCHANGED << chain, settings, service, initOutcome, envRegion, clock, files,
                    objects >>

\* jsonFilePath is back: collectionInfo.uri = jsonFilePath.url, and
\* wallet.createCollection is called; it returns or throws.
HandlerCreateCollection ==
    /\ handler.pc = "collectionJson"
    /\ Ended(calls[1])
    /\ LET jsonFilePath == calls[1].result[1]
       IN  /\ chain' = Append(chain, [ op |-> "createCollection",
                                       uri |-> UrlOf(jsonFilePath) ])
           /\ \E pc \in { "collection", "threw" } :
                 handler' = [ handler EXCEPT !.pc = pc,
                                            !.jsonFilePath = Some(jsonFilePath) ]
    /\ calls' = [ calls EXCEPT ![1] = IdleCall ]
    /\ UNCHANGED << settings, service, initOutcome, envRegion, clock, files, objects >>

\* The image callback: the NFT's image is uploaded.
HandlerUploadNftImage ==
    /\ handler.pc = "collection"
    /\ \E attachment \in SavedImages :
          calls' = [ calls EXCEPT ![1] = UploadFileCall(attachment, HandlerFileMode, clock) ]
    /\ handler' = [ handler EXCEPT !.pc = "nftImage" ]
    /\ UNCHANGED << chain, settings, service, initOutcome, envRegion, clock, files,
                    objects >>

\* res is back: the NFT's metadata, with image res.url, is uploaded.
HandlerUploadNftJson ==
    /\ handler.pc = "nftImage"
    /\ Ended(calls[1])
    /\ LET res == calls[1].result[1]
       IN  /\ handler' = [ handler EXCEPT !.pc = "nftJson", !.res = Some(res) ]
           /\ calls' = [ calls EXCEPT ![1] =
                   UploadJsonCall([ t |-> "nftMetadata", v |-> UrlOf(res) ],
                                  HandlerJsonTarget, HandlerJsonMode, clock) ]
    /\ UNCHANGED << chain, settings, service, initOutcome, envRegion, clock, files,
                    objects >>

\* The callback's jsonFilePath is back: wallet.mintNFT is called with
\* uri jsonFilePath.url; it returns or throws.
HandlerMintNFT ==
    /\ handler.pc = "nftJson"
    /\ Ended(calls[1])
    /\ LET jsonFilePath == calls[1].result[1]
       IN  /\ chain' = Append(chain, [ op |-> "mintNFT", uri |-> UrlOf(jsonFilePath) ])
           /\ \E pc \in { "minted", "threw" } :
                 handler' = [ handler EXCEPT !.pc = pc,
                                            !.nftJsonFilePath = Some(jsonFilePath) ]
    /\ calls' = [ calls EXCEPT ![1] = IdleCall ]
    /\ UNCHANGED << settings, service, initOutcome, envRegion, clock, files, objects >>

(* ------------------------------------------------------------------ *)
(* Specifications                                                      *)
(* ------------------------------------------------------------------ *)

\* The service from its construction on: initialize, the clock, and the
\* callers' calls with the backend's answers, in any interleaving.
Next ==
    \/ Initialize
    \/ Tick
    \/ \E c \in Calls : UploadFile(c)
    \/ \E c \in Calls : UploadJson(c)
    \/ \E c \in Calls : GenerateSignedUrl(c)
    \/ \E c \in Calls : PutSucceeds(c)
    \/ \E c \in Calls : PutFails(c)
    \/ \E c \in Calls : SignSucceeds(c)
    \/ \E c \in Calls : SignFails(c)

Spec == Init /\ [][Next]_vars

\* Callers that call only once initialize has ended: the calls run, in any
\* interleaving, against the configuration initialize left.
NextUploads ==
    \/ Initialize
    \/ Tick
    \/ \E c \in Calls : Initialized /\ UploadFile(c)
    \/ \E c \in Calls : Initialized /\ UploadJson(c)
    \/ \E c \in Calls : Initialized /\ GenerateSignedUrl(c)
    \/ \E c \in Calls : PutSucceeds(c)
    \/ \E c \in Calls : PutFails(c)
    \/ \E c \in Calls : SignSucceeds(c)
    \/ \E c \in Calls : SignFails(c)

SpecUploads == Init /\ [][NextUploads]_vars

\* Files named with the extensions of the content-type table, in either
\* case, with other extensions and with none.
TypedPaths ==
    { << "a", "/", "b", "/", "p", "h", "o", "t", "o", ".", "P", "N", "G" >>,
      << "x", ".", "p", "n", "g" >>,
      << "x", ".", "j", "p", "g" >>,
      << "x", ".", "J", "p", "G" >>,
      << "x", ".", "j", "p", "e", "g" >>,
      << "x", ".", "J", "P", "E", "G" >>,
      << "x", ".", "g", "i", "f" >>,
      << "x", ".", "G", "i", "f" >>,
      << "x", ".", "w", "e", "b", "p" >>,
      << "x", ".", "W", "E", "B", "P" >>,
      << "x", ".", "x", "y", "z" >>,
      << "x", ".", "p", "n", "g", ".", "t", "x", "t" >>,
      << "x", ".", "t", "x", "t", ".", "g", "i", "f" >>,
      << "a", ".", "p", "n", "g", "/", "x" >>,
      << "p", "n", "g" >>,
      << "x", "." >> }

TypedFiles ==
    { [ path |-> p, kind |-> "file", content |-> "bytes" ] : p \in TypedPaths }

\* One caller uploading the files of TypedFiles through a service that
\* initializes from a complete settings source.
InitFiles ==
    /\ settings = Settings(AccessKey, SecretKey, Region, Bucket, None)
    /\ s3Client = None
    /\ bucket = None
    /\ fileUploadPath = None
    /\ initOutcome = "constructed"
    /\ envRegion \in EnvRegions
    /\ clock = 1
    /\ files = TypedFiles
    /\ objects = { }
    /\ calls = [ c \in Calls |-> IdleCall ]
    /\ handler = IdleHandler
    /\ chain = << >>

NextFiles ==
    \/ Initialize
    \/ Tick
    \/ UploadFile(1)
    \/ PutSucceeds(1)
    \/ PutFails(1)
    \/ SignSucceeds(1)
    \/ SignFails(1)

SpecFiles == InitFiles /\ [][NextFiles]_vars

\* Files that share a directory, files that share a basename.
PairFiles ==
    { [ path |-> << "a", "/", "x", ".", "P", "N", "G" >>, kind |-> "file",
        content |-> "ax-bytes" ],
      [ path |-> << "b", "/", "x", ".", "P", "N", "G" >>, kind |-> "file",
        content |-> "bx-bytes" ],
      [ path |-> << "a", "/", "y", ".", "P", "N", "G" >>, kind |-> "file",
        content |-> "ay-bytes" ] }

\* Two callers uploading the files of PairFiles, each to a service that
\* initializes from a complete settings source.
InitFilePairs ==
    /\ settings \in { Settings(AccessKey, SecretKey, Region, Bucket, u) : u \in UploadPaths }
    /\ s3Client = None
    /\ bucket = None
    /\ fileUploadPath = None
    /\ initOutcome = "constructed"
    /\ envRegion \in EnvRegions
    /\ clock = 1
    /\ files = PairFiles
    /\ objects = { }
    /\ calls = [ c \in Calls |-> IdleCall ]
    /\ handler = IdleHandler
    /\ chain = << >>

NextFilePairs ==
    \/ Initialize
    \/ Tick
    \/ \E c \in Calls : UploadFile(c)
    \/ \E c \in Calls : PutSucceeds(c)
    \/ \E c \in Calls : PutFails(c)
    \/ \E c \in Calls : SignSucceeds(c)
    \/ \E c \in Calls : SignFails(c)

SpecFilePairs == InitFilePairs /\ [][NextFilePairs]_vars

\* The GENERATE_COLLECTION action as the service's only caller: validate,
\* then the handler, whose uploads the backend accepts or rejects.
NextHandler ==
    \/ Initialize
    \/ Tick
    \/ Validate
    \/ HandlerUploadLogo
    \/ HandlerUploadCollectionJson
    \/ HandlerCreateCollection
    \/ HandlerUploadNftImage
    \/ HandlerUploadNftJson
    \/ HandlerMintNFT
    \/ PutSucceeds(1)
    \/ PutFails(1)

SpecHandler == Init /\ [][NextHandler]_vars

(* ------------------------------------------------------------------ *)
(* Properties                                                          *)
(* ------------------------------------------------------------------ *)

RequiredSettings ==
    { "AWS_ACCESS_KEY_ID", "AWS_SECRET_ACCESS_KEY", "AWS_REGION", "AWS_S3_BUCKET" }

\* The four required settings are present and non-empty in the settings source.
AllRequiredPresent ==
    \A name \in RequiredSettings : settings[name] # None /\ Len(settings[name][1]) > 0

\* The calls of uploadFile and uploadJson that have ended.
IsUpload(call) == call.op \in { "uploadFile", "uploadJson" }

Succeeded(call) == call.pc = "returned" /\ call.result[1].success

Failed(call) == call.pc = "returned" /\ ~call.result[1].success

WantsSignedUrl(call) ==
    call.args.useSignedUrl # None /\ call.args.useSignedUrl[1]

\* s holds two slashes in a row.
HasDoubleSlash(s) == \E i \in 1..(Len(s) - 1) : s[i] = "/" /\ s[i + 1] = "/"

\* C1: once initialize has ended, it has returned exactly when all four
\* required settings are present and non-empty, and then the client is built
\* from the settings read and the bucket and the prefix are stored; when one
\* is missing or empty it has thrown, and no client, bucket or prefix is
\* stored.
C1_InitializeContract ==
    initOutcome # "constructed" =>
        IF AllRequiredPresent
        THEN /\ initOutcome = "returned"
             /\ s3Client = Some([ region |-> settings.AWS_REGION,
                                  accessKeyId |-> settings.AWS_ACCESS_KEY_ID,
                                  secretAccessKey |-> settings.AWS_SECRET_ACCESS_KEY ])
             /\ bucket = settings.AWS_S3_BUCKET
             /\ fileUploadPath =
                    IF settings.AWS_S3_UPLOAD_PATH = None THEN Some(<< >>)
                    ELSE settings.AWS_S3_UPLOAD_PATH
        ELSE /\ initOutcome = "threw"
             /\ s3Client = None
             /\ bucket = None
             /\ fileUploadPath = None

\* initialize has thrown for a settings source in which only the region is
\* empty.
C1_Witness ==
    /\ initOutcome = "threw"
    /\ settings.AWS_REGION = Some(<< >>)
    /\ \A name \in RequiredSettings \ { "AWS_REGION" } :
          settings[name] # None /\ Len(settings[name][1]) > 0

\* C2: a successful upload without a signed URL returns
\* https://B.s3.R.amazonaws.com/K, with B and R the bucket and the region of
\* the settings source and K the key of the call's PUT (and, for uploadJson,
\* the key of the result).
C2_PublicUrlFromSettings ==
    \A c \in Calls :
        LET call == calls[c]
        IN  (IsUpload(call) /\ Succeeded(call) /\ ~WantsSignedUrl(call)) =>
                /\ call.result[1].url =
                      << "https:", "/", "/" >> \o settings.AWS_S3_BUCKET[1]
                          \o << ".s3." >> \o settings.AWS_REGION[1]
                          \o << ".amazonaws.com", "/" >> \o call.sent[1].Key
                /\ call.op = "uploadJson" => call.result[1].key = call.sent[1].Key

\* C3: no key sent to the backend by uploadFile or uploadJson holds two
\* slashes in a row.
C3_NoDoubleSlashInKey ==
    \A c \in Calls :
        LET call == calls[c]
        IN  (IsUpload(call) /\ call.sent # << >>) => ~HasDoubleSlash(call.sent[1].Key)

\* C4: an upload that returns success false has stored no object.
C4_FailureStoresNothing ==
    \A c \in Calls :
        (IsUpload(calls[c]) /\ Failed(calls[c])) => ~calls[c].stored

\* C5: an upload in which the file read, the PUT or the signing raised an
\* exception has returned success false with the exception's message as its
\* error; no upload throws to its caller.
C5_ExceptionsBecomeFailures ==
    \A c \in Calls :
        LET call == calls[c]
        IN  IsUpload(call) =>
                /\ call.pc # "threw"
                /\ call.caught # None =>
                      /\ call.pc = "returned"
                      /\ call.result[1] =
                            [ success |-> FALSE, error |-> call.caught[1].message ]

\* An uploadJson whose PUT was stored and whose signing request was rejected.
C5_Witness ==
    \E c \in Calls :
        /\ calls[c].op = "uploadJson"
        /\ calls[c].pc = "returned"
        /\ calls[c].stored
        /\ Len(calls[c].sent) = 2
        /\ calls[c].caught \in { Some(e) : e \in BackendErrors }

\* C6: uploadFile for a path at which no file exists has returned
\* {success: false, error: "File does not exist"} without throwing and
\* without a PUT or a signing request.
C6_MissingFile ==
    \A c \in Calls :
        LET call == calls[c]
        IN  (call.op = "uploadFile" /\ \A f \in files : f.path # call.args.filePath) =>
                /\ call.pc = "returned"
                /\ call.result[1] = [ success |-> FALSE, error |-> "File does not exist" ]
                /\ call.sent = << >>
                /\ call.caught = None

\* uploadFile has been called for the missing path on an initialized service.
C6_Witness ==
    \E c \in Calls :
        /\ calls[c].op = "uploadFile"
        /\ calls[c].args.filePath = MissingPath
        /\ Ended(calls[c])
        /\ initOutcome = "returned"

\* C7: uploadJson for a null or undefined payload has returned
\* {success: false, error: "JSON data is required"} without throwing and
\* without a PUT or a signing request.
C7_MissingJson ==
    \A c \in Calls :
        LET call == calls[c]
        IN  (call.op = "uploadJson" /\ call.args.jsonData.t \in { "null", "undefined" }) =>
                /\ call.pc = "returned"
                /\ call.result[1] = [ success |-> FALSE, error |-> "JSON data is required" ]
                /\ call.sent = << >>
                /\ call.caught = None

\* uploadJson has been called with undefined on an initialized service.
C7_Witness ==
    \E c \in Calls :
        /\ calls[c].op = "uploadJson"
        /\ calls[c].args.jsonData.t = "undefined"
        /\ Ended(calls[c])
        /\ initOutcome = "returned"

\* The call re-run alone: the same operation with the same arguments, the
\* same timestamp and the same answers of the backend, step after step with
\* no other call in between.
RunAlone(call) ==
    LET mode == [ useSignedUrl |-> call.args.useSignedUrl,
                  expiresIn |-> call.args.expiresIn ]
        started ==
            CASE call.op = "uploadFile" ->
                    UploadFileCall(call.args.filePath, mode, call.at)
              [] call.op = "uploadJson" ->
                    UploadJsonCall(call.args.jsonData,
                                   [ fileName |-> call.args.fileName,
                                     subDirectory |-> call.args.subDirectory ],
                                   mode, call.at)
              [] OTHER ->
                    GenerateSignedUrlCall(call.args.fileName, call.args.expiresIn)
        afterPut ==
            IF started.pc # "put" THEN started
            ELSE IF call.stored THEN AfterPut(started)
            ELSE Caught(started, call.caught[1])
        signError == IF call.pc = "threw" THEN call.result[1] ELSE call.caught[1]
    IN  IF afterPut.pc # "sign" THEN afterPut
        ELSE IF call.pc = "returned" /\ call.caught = None
        THEN AfterSign(afterPut,
                       PresignedUrl(s3Client[1], afterPut.sent[Len(afterPut.sent)]))
        ELSE AfterSignError(afterPut, signError)

\* C8: while calls run, the client, the bucket and the prefix stay what
\* initialize left, and every call that has ended has sent the requests
\* (keys and contents) and has the result of the same call run alone.
C8_ConcurrentCallsIndependent ==
    /\ initOutcome = "returned" =>
          /\ s3Client = Some([ region |-> settings.AWS_REGION,
                               accessKeyId |-> settings.AWS_ACCESS_KEY_ID,
                               secretAccessKey |-> settings.AWS_SECRET_ACCESS_KEY ])
          /\ bucket = settings.AWS_S3_BUCKET
          /\ fileUploadPath =
                 IF settings.AWS_S3_UPLOAD_PATH = None THEN Some(<< >>)
                 ELSE settings.AWS_S3_UPLOAD_PATH
    /\ initOutcome # "returned" => service = << None, None, None >>
    /\ \A c \in Calls :
          Ended(calls[c]) =>
              /\ calls[c].sent = RunAlone(calls[c]).sent
              /\ calls[c].result = RunAlone(calls[c]).result
              /\ calls[c] = RunAlone(calls[c])

\* Two uploads were in flight together (the second was started while the
\* first awaited its PUT, and got its PUT answered first) and both have
\* ended.
C8_Witness ==
    /\ IsUpload(calls[1]) /\ IsUpload(calls[2])
    /\ Succeeded(calls[1]) /\ Ended(calls[2])
    /\ calls[1].stored /\ calls[2].stored
    /\ calls[1].at = calls[2].at
    /\ calls[1].key # calls[2].key
    /\ Len(calls[1].sent) = 2 /\ Len(calls[2].sent) = 2

\* C9: a successful upload with a signed URL has sent its PUT and then one
\* signing request for the PUT's bucket and key with the caller's expiresIn
\* (900 when omitted), and returns the URL that request produced, which is
\* not the public URL; a signing request is sent only once the PUT has
\* resolved.
C9_SignedUrlAfterPut ==
    \A c \in Calls :
        LET call == calls[c]
        IN  IsUpload(call) =>
              /\ Len(call.sent) > 1 => call.stored
              /\ (Succeeded(call) /\ WantsSignedUrl(call)) =>
                    /\ Len(call.sent) = 2
                    /\ call.sent[1].cmd = "PutObject"
                    /\ call.sent[2].cmd = "GetObject"
                    /\ call.sent[2].Bucket = call.sent[1].Bucket
                    /\ call.sent[2].Key = call.sent[1].Key
                    /\ call.sent[2].expiresIn =
                          IF call.args.expiresIn = None THEN 900
                          ELSE call.args.expiresIn[1]
                    /\ call.result[1].url = PresignedUrl(s3Client[1], call.sent[2])
                    /\ call.result[1].url #
                          PublicUrl(call.sent[1].Bucket, envRegion, call.sent[1].Key)
                    /\ call.result[1].url #
                          PublicUrl(call.sent[1].Bucket, settings.AWS_REGION,
                                    call.sent[1].Key)

\* An uploadFile with useSignedUrl true and expiresIn 60 has succeeded.
C9_Witness ==
    \E c \in Calls :
        /\ calls[c].op = "uploadFile"
        /\ Succeeded(calls[c])
        /\ calls[c].args.useSignedUrl = Some(TRUE)
        /\ calls[c].args.expiresIn = Some(60)

\* The content type each extension stands for.
ExpectedContentType(filePath) ==
    CASE filePath \in { << "a", "/", "b", "/", "p", "h", "o", "t", "o", ".", "P", "N", "G" >>,
                        << "x", ".", "p", "n", "g" >> } -> "image/png"
      [] filePath \in { << "x", ".", "j", "p", "g" >>, << "x", ".", "J", "p", "G" >>,
                        << "x", ".", "j", "p", "e", "g" >>,
                        << "x", ".", "J", "P", "E", "G" >> } -> "image/jpeg"
      [] filePath \in { << "x", ".", "g", "i", "f" >>, << "x", ".", "G", "i", "f" >>,
                        << "x", ".", "t", "x", "t", ".", "g", "i", "f" >> } -> "image/gif"
      [] filePath \in { << "x", ".", "w", "e", "b", "p" >>,
                        << "x", ".", "W", "E", "B", "P" >> } -> "image/webp"
      [] OTHER -> "application/octet-stream"

\* C10: the content type of the PUT of uploadFile, and of the object stored,
\* is the one the file's extension stands for, whatever its case:
\* image/png for .png, image/jpeg for .jpg and .jpeg, image/gif for .gif,
\* image/webp for .webp, application/octet-stream otherwise.
C10_ContentTypeByExtension ==
    \A c \in Calls :
        LET call == calls[c]
        IN  (call.op = "uploadFile" /\ call.sent # << >>) =>
              /\ call.sent[1].ContentType = ExpectedContentType(call.args.filePath)
              /\ call.stored =>
                    \E o \in objects :
                        /\ o.Key = call.sent[1].Key
                        /\ o.ContentType = ExpectedContentType(call.args.filePath)

\* a/b/photo.PNG has been stored as image/png.
C10_Witness ==
    \E c \in Calls, o \in objects :
        /\ calls[c].op = "uploadFile"
        /\ calls[c].args.filePath =
              << "a", "/", "b", "/", "p", "h", "o", "t", "o", ".", "P", "N", "G" >>
        /\ calls[c].stored
        /\ o.Key = calls[c].sent[1].Key
        /\ o.ContentType = "image/png"

\* C11: uploadJson for a payload that is neither null nor undefined (the
\* falsy 0, false and "" included) does not answer "JSON data is required":
\* it goes on to the upload, so that on an initialized service its PUT, with
\* the serialized payload as body, has been sent.
C11_OnlyMissingPayloadRejected ==
    \A c \in Calls :
        LET call == calls[c]
        IN  (call.op = "uploadJson" /\ call.args.jsonData.t \notin { "null", "undefined" }) =>
                /\ Ended(call) =>
                      call.result[1] # [ success |-> FALSE, error |-> "JSON data is required" ]
                /\ initOutcome = "returned" =>
                      /\ call.sent # << >>
                      /\ call.sent[1].Body = JsonStringify(call.args.jsonData)

\* Both callers have called uploadFile and both PUTs have been stored.
BothFilesStored ==
    /\ calls[1].op = "uploadFile" /\ calls[1].stored
    /\ calls[2].op = "uploadFile" /\ calls[2].stored

\* The object the call's PUT stored is in the bucket.
HoldsObjectOf(call) ==
    \E o \in objects :
        /\ o.Bucket = call.sent[1].Bucket
        /\ o.Key = call.sent[1].Key
        /\ o.Body = call.sent[1].Body

\* C12 as stated: any two uploadFile calls store their objects under
\* distinct keys, and neither overwrites the other.
C12_FileKeysAlwaysDistinct ==
    BothFilesStored =>
        /\ calls[1].sent[1].Key # calls[2].sent[1].Key
        /\ HoldsObjectOf(calls[1])
        /\ HoldsObjectOf(calls[2])

\* C12, amended: two uploadFile calls that read different timestamps, or
\* whose files have different basenames, store their objects under distinct
\* keys, and neither overwrites the other.
C12_FileKeysDistinctByTimestampOrName ==
    (/\ BothFilesStored
     /\ \/ calls[1].at # calls[2].at
        \/ basename(calls[1].args.filePath) # basename(calls[2].args.filePath)) =>
        /\ calls[1].sent[1].Key # calls[2].sent[1].Key
        /\ HoldsObjectOf(calls[1])
        /\ HoldsObjectOf(calls[2])

\* The same path has been uploaded twice, at different times.
C12_Witness ==
    /\ BothFilesStored
    /\ calls[1].args.filePath = calls[2].args.filePath
    /\ calls[1].at # calls[2].at

\* Both callers have called uploadJson with the same explicit file name and
\* the same sub-directory, and both have sent their PUT.
SameJsonTarget ==
    /\ calls[1].op = "uploadJson" /\ calls[2].op = "uploadJson"
    /\ calls[1].args.fileName # None /\ Len(calls[1].args.fileName[1]) > 0
    /\ calls[1].args.fileName = calls[2].args.fileName
    /\ calls[1].args.subDirectory = calls[2].args.subDirectory
    /\ calls[1].sent # << >> /\ calls[2].sent # << >>

\* The objects the bucket holds under the bucket name and key of a PUT.
ObjectsAt(objs, put) == { o \in objs : o.Bucket = put.Bucket /\ o.Key = put.Key }

\* The two calls have the same key; when both have succeeded, both results
\* carry that key, no error was caught, and the bucket holds one object
\* under the key, with the body of one of the two PUTs.
C13_SameKeyOneObject ==
    SameJsonTarget =>
        /\ calls[1].sent[1].Key = calls[2].sent[1].Key
        /\ (Succeeded(calls[1]) /\ Succeeded(calls[2])) =>
              /\ calls[1].result[1].key = calls[1].sent[1].Key
              /\ calls[2].result[1].key = calls[1].sent[1].Key
              /\ calls[1].caught = None /\ calls[2].caught = None
              /\ Cardinality(ObjectsAt(objects, calls[1].sent[1])) = 1
              /\ \A o \in ObjectsAt(objects, calls[1].sent[1]) :
                    o.Body \in { calls[1].sent[1].Body, calls[2].sent[1].Body }

\* A step in which the PUT of caller c resolves leaves, under the PUT's key,
\* the PUT's body alone; the bucket changes in no other step.
C13_LastPutWins ==
    /\ \A c \in Calls :
          (calls[c].pc = "put" /\ calls'[c].stored) =>
              \A o \in ObjectsAt(objects', calls[c].sent[1]) :
                  o.Body = calls[c].sent[1].Body
    /\ objects' # objects =>
          \E c \in Calls : calls[c].pc = "put" /\ calls'[c].stored

C14_WalletCallsAfterSuccessfulUploads ==
    \A i \in 1..Len(chain) :
        /\ chain[i].uri # None
        /\ chain[i].op = "createCollection" =>
              handler.logoPath[1].success /\ handler.jsonFilePath[1].success
        /\ chain[i].op = "mintNFT" =>
              handler.res[1].success /\ handler.nftJsonFilePath[1].success

\* C15: validate has answered true only for settings sources in which all
\* four required settings are present, those for which initialize returns.
C15_ValidateAgreesWithInitialize ==
    handler.validated = Some(TRUE) =>
        /\ AllRequiredPresent
        /\ initOutcome # "threw"

====
